---- MODULE Spec2Model ----
(***************************************************************************)
(* crumb: the capture form (internal/tui/app.go), the title / slug /       *)
(* filename deriver (internal/storage), the entry store, the configuration *)
(* (internal/config) and the commands of cmd/crumb with the index they     *)
(* write, as a state machine.  The form is the bubbletea Model: one action per message the   *)
(* event loop hands to Model.Update.  Commands returned by Update are      *)
(* messages in flight (timers, the save-success message); tea.Quit ends    *)
(* the session.                                                            *)
(*                                                                         *)
(* Text is a Go string: a sequence of bytes.  An ASCII byte is written as   *)
(* its one-character string; the two bytes of the letter U+00E9 (e acute)  *)
(* in UTF-8 are "C3" and "A9", the three of U+FFFD "EF", "BF", "BD".  A     *)
(* rune is an ASCII character, "U+00E9" or "U+FFFD" (utf8.RuneError).       *)
(***************************************************************************)
EXTENDS Integers, Sequences, FiniteSets, TLC

VARIABLES
    m,          \* the tui.Model value held by the event loop
    files,      \* the output directory: a set of [name, content]
    inflight,   \* messages scheduled by returned commands, not yet delivered
    running,    \* FALSE once tea.Quit was returned
    nsave,      \* number of saveAndExit calls so far (the id of the latest)
    now,        \* the wall clock, read by storage.GetTimestamp
    toastId,    \* history: id of the save whose toast is the latest one shown
    last,       \* history: the message Update handled last, and its outcome
    drv,        \* the deriver at work: the text given and what was derived
    cli         \* the command line: the machine's disk and the last invocation

vars == <<m, files, inflight, running, nsave, now, toastId, last, drv, cli>>

\* what a session of the form leaves alone
outside == <<drv, cli>>

---------------------------------------------------------------------------
(* Bounds of the model *)

\* longest text typed into the prompt or the output field
MaxLen == 1
\* most tags entered in the tag input
MaxTags == 1
\* most Ctrl+S presses that reach saveAndExit in one session
MaxSaves == 2
\* the dropdown selection is moved over the first MaxTool tools
MaxTool == 2
\* most units of content in the form at a time: characters in the two text
\* fields, tags, and steps of the dropdown selection away from the first tool
MaxInput == 2
\* the clock reads 0..MaxClock, DayLen ticks to a calendar day
MaxClock == 0
DayLen == 2

\* tallest terminal the sizing rule is evaluated for
MaxHeight == 60

\* characters the user types; Enter in a text field inserts "\n"
Chars == {"a"}
\* tokens the user enters in the tag input
TagNames == {"go"}
\* terminal sizes delivered by tea.WindowSizeMsg
WindowSizes == {[w |-> 120, h |-> 50]}

---------------------------------------------------------------------------
(* Program constants *)

ToastValidationMs == 2000
ToastErrorMs == 3000
ToastSuccessMs == 2000
QuitDelayMs == 500
TitleMax == 60
SlugMax == 50
fixedHeight == 26
NumFields == 4

builtInTools ==
    << "Claude Code", "Cursor", "Kiro", "ChatGPT", "Copilot",
       "Warp AI", "Windsurf", "Aider", "Gemini", "Perplexity" >>

\* a *Config.  A Go slice is its elements; nils names the list fields whose
\* slice is nil (a nil slice has no elements)
DefaultConfig ==
    [ DefaultTool |-> "Claude Code", CustomTools |-> << >>,
      FavoriteTags |-> << >>, OutputDir |-> "crumbs", nils |-> {} ]

\* the nil *Config
NilConfig == [nil |-> TRUE]

GetAllTools_customFirst(cfg) ==
    IF cfg = NilConfig THEN builtInTools
    ELSE cfg.CustomTools \o builtInTools

\* for a config the result is a new slice, the built-in list copied into it
GetAllTools(cfg) ==
    IF cfg = NilConfig THEN builtInTools
    ELSE builtInTools \o cfg.CustomTools

\* the config file: a path that cannot be determined, no file, a file that
\* cannot be read, one that is not YAML, or YAML with some of the four keys.
\* A key that is not in keys has the zero value.
ListFields == {"custom_tools", "favorite_tags"}
ConfigKeys == {"default_tool", "output_dir"} \cup ListFields
NoFile(kind) ==
    [ kind |-> kind, keys |-> {}, DefaultTool |-> "", OutputDir |-> "",
      CustomTools |-> << >>, FavoriteTags |-> << >> ]
YamlFiles ==
    { f \in [ kind : {"yaml"}, keys : SUBSET ConfigKeys,
              DefaultTool : {"", "Cursor"}, OutputDir : {"", "notes"},
              CustomTools : {<< >>, <<"Mine">>},
              FavoriteTags : {<< >>, <<"go">>} ] :
         /\ "default_tool" \notin f.keys => f.DefaultTool = ""
         /\ "output_dir" \notin f.keys => f.OutputDir = ""
         /\ "custom_tools" \notin f.keys => f.CustomTools = << >>
         /\ "favorite_tags" \notin f.keys => f.FavoriteTags = << >> }
ConfigFiles ==
    {NoFile("nopath"), NoFile("absent"), NoFile("unreadable"),
     NoFile("unparsable")} \cup YamlFiles

\* yaml.Unmarshal into a zero Config: a list key that is not in the file
\* leaves the slice nil
Unmarshal(file) ==
    [ DefaultTool |-> file.DefaultTool, CustomTools |-> file.CustomTools,
      FavoriteTags |-> file.FavoriteTags, OutputDir |-> file.OutputDir,
      nils |-> ListFields \ file.keys ]

Load_wholeFileDefaults(file) ==
    CASE file.kind = "nopath" ->
           [cfg |-> NilConfig, err |-> "failed to get config file path"]
      [] file.kind = "absent" -> [cfg |-> DefaultConfig, err |-> ""]
      [] file.kind = "unreadable" ->
           [cfg |-> NilConfig, err |-> "failed to read config file"]
      [] file.kind = "unparsable" ->
           [cfg |-> NilConfig, err |-> "failed to parse config file"]
      [] OTHER ->
           LET cfg == Unmarshal(file)
           IN  [ cfg |-> IF cfg.DefaultTool = "" \/ cfg.OutputDir = ""
                            \/ cfg.nils # {}
                         THEN DefaultConfig ELSE cfg,
                 err |-> "" ]

Load_lenient(file) ==
    CASE file.kind = "nopath" ->
           [cfg |-> NilConfig, err |-> "failed to get config file path"]
      [] file.kind \in {"absent", "unreadable", "unparsable"} ->
           [cfg |-> DefaultConfig, err |-> ""]
      [] OTHER ->
           LET cfg == Unmarshal(file)
           IN  [ cfg |-> [cfg EXCEPT
                     !.DefaultTool = IF @ = "" THEN "Claude Code" ELSE @,
                     !.OutputDir = IF @ = "" THEN "crumbs" ELSE @,
                     !.nils = {}],
                 err |-> "" ]

\* config.Load on the file at the XDG config path
Load(file) ==
    CASE file.kind = "nopath" ->
           [cfg |-> NilConfig, err |-> "failed to get config file path"]
      [] file.kind = "absent" -> [cfg |-> DefaultConfig, err |-> ""]
      [] file.kind = "unreadable" ->
           [cfg |-> NilConfig, err |-> "failed to read config file"]
      [] file.kind = "unparsable" ->
           [cfg |-> NilConfig, err |-> "failed to parse config file"]
      [] OTHER ->
           LET cfg == Unmarshal(file)
           IN  [ cfg |-> [cfg EXCEPT
                     !.DefaultTool = IF @ = "" THEN "Claude Code" ELSE @,
                     !.OutputDir = IF @ = "" THEN "crumbs" ELSE @,
                     !.nils = {}],
                 err |-> "" ]

---------------------------------------------------------------------------
(* strings / unicode helpers used by the deriver *)

Whitespace == {" ", "\n", "\t"}
Lower == {"a", "b"}
Digits == {"0", "1"}

Min(a, b) == IF a < b THEN a ELSE b
Max(a, b) == IF a > b THEN a ELSE b

Take(s, n) == SubSeq(s, 1, Min(n, Len(s)))

\* the text without its longest prefix of characters in cut
TrimLeft(s, cut) ==
    IF \A i \in 1..Len(s) : s[i] \in cut THEN << >>
    ELSE LET first == CHOOSE i \in 1..Len(s) :
                         s[i] \notin cut /\ \A j \in 1..(i - 1) : s[j] \in cut
         IN  SubSeq(s, first, Len(s))

\* the text without its longest suffix of characters in cut
TrimRight(s, cut) ==
    IF \A i \in 1..Len(s) : s[i] \in cut THEN << >>
    ELSE LET end == CHOOSE i \in 1..Len(s) :
                       s[i] \notin cut /\ \A j \in (i + 1)..Len(s) : s[j] \in cut
         IN  SubSeq(s, 1, end)

\* strings.TrimSpace
TrimSpace(s) == TrimRight(TrimLeft(s, Whitespace), Whitespace)

\* regexp `\s+` -> " " and `-+` -> "-": every run of cut becomes one rep
CollapseRuns(s, cut, rep) ==
    LET marked == [i \in 1..Len(s) |->
                     IF s[i] \notin cut THEN s[i]
                     ELSE IF i > 1 /\ s[i - 1] \in cut THEN "" ELSE rep]
    IN  SelectSeq(marked, LAMBDA c : c # "")

\* strings.LastIndex, 0-based, -1 when absent
LastIndex(s, c) ==
    IF \A i \in 1..Len(s) : s[i] # c THEN -1
    ELSE (CHOOSE i \in 1..Len(s) :
             s[i] = c /\ \A j \in (i + 1)..Len(s) : s[j] # c) - 1

GenerateTitle(prompt) ==
    LET p == CollapseRuns(TrimSpace(prompt), Whitespace, " ")
        truncated == Take(p, TitleMax)
        lastSpace == LastIndex(truncated, " ")
    IN  IF Len(p) <= TitleMax THEN p
        ELSE IF lastSpace > 0 THEN Take(truncated, lastSpace) ELSE truncated

ToLower(c) == CASE c = "A" -> "a" [] c = "B" -> "b" [] OTHER -> c

Hyphenate(c) == IF c \in {" ", "_"} THEN "-" ELSE c

\* bytes >= utf8.RuneSelf
HighBytes == {"C3", "A9", "EF", "BF", "BD"}
EAcute == "U+00E9"
RuneError == "U+FFFD"
Upper == {"A", "B"}
\* unicode.IsLetter
Letters == Lower \cup Upper \cup {EAcute}

\* for _, r := range s: a byte that starts no valid encoding is RuneError
Decode(s) ==
    LET at(i) == IF i >= 1 /\ i <= Len(s) THEN s[i] ELSE ""
        rune(i) ==
            CASE s[i] = "C3" /\ at(i + 1) = "A9" -> EAcute
              [] s[i] = "A9" /\ at(i - 1) = "C3" -> ""
              [] s[i] = "EF" /\ at(i + 1) = "BF" /\ at(i + 2) = "BD" -> RuneError
              [] s[i] = "BF" /\ at(i - 1) = "EF" /\ at(i + 1) = "BD" -> ""
              [] s[i] = "BD" /\ at(i - 2) = "EF" /\ at(i - 1) = "BF" -> ""
              [] s[i] \in HighBytes -> RuneError
              [] OTHER -> s[i]
    IN  SelectSeq([i \in 1..Len(s) |-> rune(i)], LAMBDA r : r # "")

\* strings.Builder.WriteRune over the runes
Encode(runes) ==
    LET bytes(r) == CASE r = EAcute -> <<"C3", "A9", "">>
                      [] r = RuneError -> <<"EF", "BF", "BD">>
                      [] OTHER -> <<r, "", "">>
        wide == [i \in 1..(3 * Len(runes)) |->
                    bytes(runes[((i - 1) \div 3) + 1])[((i - 1) % 3) + 1]]
    IN  SelectSeq(wide, LAMBDA c : c # "")

\* utf8.RuneCountInString
RuneCount(s) == Len(Decode(s))

\* strings.ToLower: bytewise for ASCII text, strings.Map(unicode.ToLower)
\* otherwise, which writes U+FFFD for a byte that is no valid encoding
ToLowerString(str) ==
    IF \A i \in 1..Len(str) : str[i] \notin HighBytes
    THEN [i \in 1..Len(str) |-> ToLower(str[i])]
    ELSE LET runes == Decode(str)
         IN  Encode([i \in 1..Len(runes) |-> ToLower(runes[i])])

Slugify(str) ==
    LET lowered == ToLowerString(str)
        hyph == [i \in 1..Len(lowered) |-> Hyphenate(lowered[i])]
        kept == Encode(SelectSeq(Decode(hyph),
                    LAMBDA r : r \in Letters \cup Digits \cup {"-"}))
        s == TrimRight(TrimLeft(CollapseRuns(kept, {"-"}, "-"), {"-"}), {"-"})
        truncated == Take(s, SlugMax)
        lastHyphen == LastIndex(truncated, "-")
    IN  IF Len(s) > SlugMax
        THEN IF lastHyphen > 0 THEN Take(truncated, lastHyphen) ELSE truncated
        ELSE s

\* a timestamp counts clock ticks, DayLen of them to a calendar day;
\* Format("2006-01-02") keeps the day
DateOf(timestamp) == timestamp \div DayLen

\* the decimal digits of n, two wide
TwoDigits(n) ==
    LET digit == <<"0", "1", "2", "3", "4", "5", "6", "7", "8", "9">>
    IN  <<digit[(n \div 10) + 1], digit[(n % 10) + 1]>>

\* timestamp.Format("2006-01-02"); the clock starts on 2024-01-15 and the
\* model's days stay inside that January
FormatDate(timestamp) ==
    <<"2", "0", "2", "4", "-", "0", "1", "-">>
        \o TwoDigits(15 + DateOf(timestamp))

GenerateFilename_withClock(title, timestamp) ==
    <<"2", "0", "2", "4", "-", "0", "1", "-">> \o TwoDigits(15 + timestamp)
        \o <<"-">> \o Slugify(title) \o <<".", "m", "d">>

GenerateFilename(title, timestamp) ==
    FormatDate(timestamp) \o <<"-">> \o Slugify(title) \o <<".", "m", "d">>

---------------------------------------------------------------------------
(* The form's fields.  A textarea is [value, focus, height, width]; the     *)
(* tag input is [tags, focus]; the dropdown is [selected, focus], selected  *)
(* an index into GetAllTools(cfg).                                          *)

\* textarea.New(): empty, blurred, bubbles' default size
textareaNew == [value |-> << >>, focus |-> FALSE, height |-> 6, width |-> 40]

\* components.NewTagInput(suggestions): no tags entered, not focused
NewTagInput == [tags |-> << >>, focus |-> FALSE]

\* components.NewDropdown(options, selectedIdx, label): not focused
NewDropdown(defaultIdx) == [selected |-> defaultIdx, focus |-> FALSE]

\* index of tool in allTools, the first entry when it is not in the list
ToolIndex(allTools, tool) ==
    IF \E i \in 1..Len(allTools) : allTools[i] = tool
    THEN CHOOSE i \in 1..Len(allTools) :
            /\ allTools[i] = tool
            /\ \A j \in 1..(i - 1) : allTools[j] # tool
    ELSE 1

New(cfg, tool, stay) ==
    [ prompt     |-> [textareaNew EXCEPT !.height = 8, !.focus = TRUE],
      tags       |-> NewTagInput,
      output     |-> [textareaNew EXCEPT !.height = 6],
      toolSelect |-> NewDropdown(ToolIndex(GetAllTools(cfg), tool)),
      focusIndex |-> 0,
      showHelp   |-> FALSE,
      showToast  |-> FALSE,
      toastMsg   |-> "",
      isError    |-> FALSE,
      config     |-> cfg,
      stayOpen   |-> stay,
      width      |-> 80,
      height     |-> 24 ]

\* the Blur() / Focus() call setFocus makes on the field at index i
SetFieldFocus(mm, i, on) ==
    CASE i = 0 -> [mm EXCEPT !.prompt.focus = on]
      [] i = 1 -> [mm EXCEPT !.output.focus = on]
      [] i = 2 -> [mm EXCEPT !.toolSelect.focus = on]
      [] i = 3 -> [mm EXCEPT !.tags.focus = on]
      [] OTHER -> mm

setFocus_noBlur(mm, index) ==
    SetFieldFocus([mm EXCEPT !.focusIndex = index], index, TRUE)

setFocus(mm, index) ==
    LET blurred == SetFieldFocus(mm, mm.focusIndex, FALSE)
        moved == [blurred EXCEPT !.focusIndex = index]
    IN  SetFieldFocus(moved, index, TRUE)

focusNext_noWrap(mm) == setFocus(mm, mm.focusIndex + 1)

focusNext(mm) == setFocus(mm, (mm.focusIndex + 1) % NumFields)

focusPrev_noWrap(mm) == setFocus(mm, mm.focusIndex - 1)

focusPrev(mm) == setFocus(mm, (mm.focusIndex - 1 + NumFields) % NumFields)

updateTextareaSizes_half(mm) ==
    LET availableHeight == Max(mm.height - fixedHeight, 10)
        promptHeight == (availableHeight * 50) \div 100
        outputHeight == availableHeight - promptHeight
    IN  [mm EXCEPT !.prompt.height = Max(promptHeight, 4),
                   !.prompt.width = mm.width - 8,
                   !.output.height = Max(outputHeight, 3),
                   !.output.width = mm.width - 8]

updateTextareaSizes(mm) ==
    LET availableHeight == Max(mm.height - fixedHeight, 10)
        promptHeight == (availableHeight * 60) \div 100
        outputHeight == availableHeight - promptHeight
    IN  [mm EXCEPT !.prompt.height = Max(promptHeight, 4),
                   !.prompt.width = mm.width - 8,
                   !.output.height = Max(outputHeight, 3),
                   !.output.width = mm.width - 8]

clearFields_keepsFocus(mm) ==
    [mm EXCEPT !.prompt.value = << >>,
               !.tags = NewTagInput,
               !.output.value = << >>]

clearFields_resetsTool(mm) ==
    setFocus([mm EXCEPT !.prompt.value = << >>,
                        !.tags = NewTagInput,
                        !.output.value = << >>,
                        !.toolSelect.selected = 1], 0)

\* clearFields: Reset() keeps a textarea's focus and size
clearFields(mm) ==
    setFocus([mm EXCEPT !.prompt.value = << >>,
                        !.tags = NewTagInput,
                        !.output.value = << >>], 0)

---------------------------------------------------------------------------
(* Commands: what Update returns besides the model.  A command is a set of  *)
(* messages to come: [type, id, after], id the saveAndExit call that made   *)
(* it, after the delay in ms.  QuitMsg is tea.Quit.                         *)

NoCmd == {}
Quit == {[type |-> "QuitMsg", id |-> 0, after |-> 0]}
HideToastAfter(d, id) == {[type |-> "ToastHideMsg", id |-> id, after |-> d]}
SaveSuccessCmd(id) == {[type |-> "saveSuccessMsg", id |-> id, after |-> 0]}
QuitTick(id) == {[type |-> "quitAfterDelayMsg", id |-> id, after |-> QuitDelayMs]}

\* storage.GetGitAuthor: the environment has no git user.name
GetGitAuthor == ""

\* errors MarkdownStorage.Save can return
SaveErrors == {"permission denied"}

\* MarkdownStorage.Save(filename, content): writes <outputDir>/<filename>,
\* replacing a file of that name; on an error the directory is as before
Save(fs, dir, filename, content, err) ==
    IF err = ""
    THEN [ files |-> {f \in fs : f.dir # dir \/ f.name # filename}
                        \cup {[dir |-> dir, name |-> filename,
                                content |-> content]},
           path |-> <<dir, filename>>, err |-> "" ]
    ELSE [ files |-> fs, path |-> << >>, err |-> err ]

\* the markdown saveAndExit builds: front matter, prompt, optional output
RenderEntry(mm, title, timestamp, author) ==
    [ title  |-> title,
      date   |-> timestamp,
      author |-> author,
      tool   |-> GetAllTools(mm.config)[mm.toolSelect.selected],
      tags   |-> mm.tags.tags,
      prompt |-> mm.prompt.value,
      output |-> IF TrimSpace(mm.output.value) # << >>
                 THEN <<"## Output">> \o mm.output.value ELSE << >> ]

\* saveAndExit, the validation failure: the toast, and nothing saved
rejectEmptyPrompt(mm, fs, id) ==
    [ m |-> [mm EXCEPT !.showToast = TRUE, !.isError = TRUE,
                       !.toastMsg = <<"Prompt is required">>],
      cmd |-> HideToastAfter(ToastValidationMs, id),
      files |-> fs, save |-> "invalid" ]

saveFailed_clearsForm(mm, fs, err, id) ==
    [ m |-> clearFields([mm EXCEPT !.showToast = TRUE, !.isError = TRUE,
                                   !.toastMsg = <<"Error: ", err>>]),
      cmd |-> HideToastAfter(ToastErrorMs, id),
      files |-> fs, save |-> "error" ]

\* saveAndExit, Save returned err
saveFailed(mm, fs, err, id) ==
    [ m |-> [mm EXCEPT !.showToast = TRUE, !.isError = TRUE,
                       !.toastMsg = <<"Error: ", err>>],
      cmd |-> HideToastAfter(ToastErrorMs, id),
      files |-> fs, save |-> "error" ]

\* saveAndExit, Save returned path
saveSucceeded(mm, fs, path, id) ==
    IF mm.stayOpen
    THEN [ m |-> clearFields(
                   [mm EXCEPT !.showToast = TRUE, !.isError = FALSE,
                              !.toastMsg = <<"Saved: ">> \o path]),
           cmd |-> HideToastAfter(ToastSuccessMs, id),
           files |-> fs, save |-> "ok" ]
    ELSE [ m |-> mm, cmd |-> SaveSuccessCmd(id), files |-> fs, save |-> "ok" ]

\* saveAndExit past the validation: derive, render, Save, branch on the result
writeEntry(mm, fs, timestamp, err, id) ==
    LET title == GenerateTitle(mm.prompt.value)
        filename == GenerateFilename(title, timestamp)
        author == IF GetGitAuthor = "" THEN "Unknown" ELSE GetGitAuthor
        content == RenderEntry(mm, title, timestamp, author)
        saved == Save(fs, mm.config.OutputDir, filename, content, err)
    IN  IF saved.err # ""
        THEN saveFailed(mm, saved.files, saved.err, id)
        ELSE saveSucceeded(mm, saved.files, saved.path, id)

saveAndExit_noValidation(mm, fs, timestamp, err, id) ==
    writeEntry(mm, fs, timestamp, err, id)

\* saveAndExit with the clock reading timestamp, Save failing with err
\* ("" for success) and id naming this call: the model, the command, the
\* directory afterwards and what happened
saveAndExit(mm, fs, timestamp, err, id) ==
    IF TrimSpace(mm.prompt.value) = << >>
    THEN rejectEmptyPrompt(mm, fs, id)
    ELSE writeEntry(mm, fs, timestamp, err, id)

---------------------------------------------------------------------------
(* The fields' own Update: what an unbound key does to the focused field.   *)

GlobalKeys ==
    {"ctrl+c", "ctrl+d", "esc", "?", "ctrl+s", "/", "ctrl+t", "tab", "shift+tab"}
FieldKeys == Chars \cup {"enter", "backspace", "up", "down"}
Keys == GlobalKeys \cup FieldKeys

\* keys of one printable character: a textarea that gets one inserts it
Insertable == Chars \cup {"/", "?"}

\* textarea.Update: a blurred textarea ignores keys; characters go in at the
\* cursor (kept at the end), Enter breaks the line, Backspace deletes
textareaUpdate(ta, k) ==
    IF ~ta.focus THEN ta
    ELSE CASE k \in Insertable -> [ta EXCEPT !.value = Append(@, k)]
           [] k = "enter" -> [ta EXCEPT !.value = Append(@, "\n")]
           [] k = "backspace" /\ ta.value # << >> ->
                [ta EXCEPT !.value = SubSeq(@, 1, Len(@) - 1)]
           [] OTHER -> ta

\* Dropdown.Update: Up / Down move the selection inside the list
dropdownUpdate(dd, k, n) ==
    IF ~dd.focus THEN dd
    ELSE CASE k = "up" /\ dd.selected > 1 -> [dd EXCEPT !.selected = @ - 1]
           [] k = "down" /\ dd.selected < n -> [dd EXCEPT !.selected = @ + 1]
           [] OTHER -> dd

\* TagInput.Update: Enter adds the token entered, Backspace removes the last
tagInputUpdate(ti, k, token) ==
    IF ~ti.focus THEN ti
    ELSE CASE k = "enter" -> [ti EXCEPT !.tags = Append(@, token)]
           [] k = "backspace" /\ ti.tags # << >> ->
                [ti EXCEPT !.tags = SubSeq(@, 1, Len(@) - 1)]
           [] OTHER -> ti

updateFocused_promptToo(mm, k, token) ==
    CASE mm.focusIndex = 0 -> [mm EXCEPT !.prompt = textareaUpdate(@, k)]
      [] mm.focusIndex = 1 -> [mm EXCEPT !.output = textareaUpdate(@, k)]
      [] mm.focusIndex = 2 ->
           [mm EXCEPT !.toolSelect =
                dropdownUpdate(@, k, Len(GetAllTools(mm.config)))]
      [] mm.focusIndex = 3 ->
           [mm EXCEPT !.tags = tagInputUpdate(@, k, token),
                      !.prompt.value = IF k = "backspace" THEN << >> ELSE @]
      [] OTHER -> mm

\* the tail of Update: the message goes to the field at focusIndex
updateFocused(mm, k, token) ==
    CASE mm.focusIndex = 0 -> [mm EXCEPT !.prompt = textareaUpdate(@, k)]
      [] mm.focusIndex = 1 -> [mm EXCEPT !.output = textareaUpdate(@, k)]
      [] mm.focusIndex = 2 ->
           [mm EXCEPT !.toolSelect =
                dropdownUpdate(@, k, Len(GetAllTools(mm.config)))]
      [] mm.focusIndex = 3 -> [mm EXCEPT !.tags = tagInputUpdate(@, k, token)]
      [] OTHER -> mm

---------------------------------------------------------------------------
(* Model.Update, one operator per message type.  Each gives the model and   *)
(* the command; a key also the directory and the outcome of a save.         *)

Result(mm, cmd, fs, save) == [m |-> mm, cmd |-> cmd, files |-> fs, save |-> save]

globalBindings_escSaves(mm, k, fs, timestamp, err, id, token) ==
    CASE k \in {"ctrl+c", "ctrl+d"} -> Result(mm, Quit, fs, "none")
      [] k = "esc" ->
           Result(mm, Quit, writeEntry(mm, fs, timestamp, err, id).files, "none")
      [] k = "?" -> Result([mm EXCEPT !.showHelp = TRUE], NoCmd, fs, "none")
      [] k = "ctrl+s" -> saveAndExit(mm, fs, timestamp, err, id)
      [] k \in {"/", "ctrl+t"} -> Result(setFocus(mm, 2), NoCmd, fs, "none")
      [] k = "tab" -> Result(focusNext(mm), NoCmd, fs, "none")
      [] k = "shift+tab" -> Result(focusPrev(mm), NoCmd, fs, "none")
      [] OTHER -> Result(updateFocused(mm, k, token), NoCmd, fs, "none")

globalBindings_slashTyped(mm, k, fs, timestamp, err, id, token) ==
    CASE k \in {"ctrl+c", "ctrl+d"} -> Result(mm, Quit, fs, "none")
      [] k = "esc" -> Result(mm, Quit, fs, "none")
      [] k = "?" -> Result([mm EXCEPT !.showHelp = TRUE], NoCmd, fs, "none")
      [] k = "ctrl+s" -> saveAndExit(mm, fs, timestamp, err, id)
      [] k = "ctrl+t" -> Result(setFocus(mm, 2), NoCmd, fs, "none")
      [] k = "tab" -> Result(focusNext(mm), NoCmd, fs, "none")
      [] k = "shift+tab" -> Result(focusPrev(mm), NoCmd, fs, "none")
      [] OTHER -> Result(updateFocused(mm, k, token), NoCmd, fs, "none")

\* case tea.KeyMsg, the global key bindings and the focused field
globalBindings(mm, k, fs, timestamp, err, id, token) ==
    CASE k \in {"ctrl+c", "ctrl+d"} -> Result(mm, Quit, fs, "none")
      [] k = "esc" -> Result(mm, Quit, fs, "none")
      [] k = "?" -> Result([mm EXCEPT !.showHelp = TRUE], NoCmd, fs, "none")
      [] k = "ctrl+s" -> saveAndExit(mm, fs, timestamp, err, id)
      [] k \in {"/", "ctrl+t"} -> Result(setFocus(mm, 2), NoCmd, fs, "none")
      [] k = "tab" -> Result(focusNext(mm), NoCmd, fs, "none")
      [] k = "shift+tab" -> Result(focusPrev(mm), NoCmd, fs, "none")
      [] OTHER -> Result(updateFocused(mm, k, token), NoCmd, fs, "none")

UpdateKeyMsg_quitsUnderHelp(mm, k, fs, timestamp, err, id, token) ==
    IF mm.showHelp /\ k \notin {"ctrl+c", "ctrl+d", "esc"}
    THEN Result([mm EXCEPT !.showHelp = FALSE], NoCmd, fs, "none")
    ELSE globalBindings(mm, k, fs, timestamp, err, id, token)

\* case tea.KeyMsg: a visible help overlay takes the key
UpdateKeyMsg(mm, k, fs, timestamp, err, id, token) ==
    IF mm.showHelp
    THEN Result([mm EXCEPT !.showHelp = FALSE], NoCmd, fs, "none")
    ELSE globalBindings(mm, k, fs, timestamp, err, id, token)

\* case saveSuccessMsg
UpdateSaveSuccess(mm, id) ==
    LET shown == [mm EXCEPT !.showToast = TRUE, !.isError = FALSE,
                            !.toastMsg = <<"Saved!">>]
    IN  IF mm.stayOpen
        THEN [m |-> clearFields(shown), cmd |-> HideToastAfter(ToastSuccessMs, id)]
        ELSE [m |-> shown, cmd |-> QuitTick(id)]

\* case saveErrorMsg
UpdateSaveError(mm, err, id) ==
    [ m |-> [mm EXCEPT !.showToast = TRUE, !.isError = TRUE,
                       !.toastMsg = <<"Error: ", err>>],
      cmd |-> HideToastAfter(ToastErrorMs, id) ]

UpdateQuitAfterDelay_waitsForHelp(mm) ==
    [m |-> mm, cmd |-> IF mm.showHelp THEN NoCmd ELSE Quit]

\* case quitAfterDelayMsg
UpdateQuitAfterDelay(mm) == [m |-> mm, cmd |-> Quit]

\* case ToastHideMsg
UpdateToastHide(mm) == [m |-> [mm EXCEPT !.showToast = FALSE], cmd |-> NoCmd]

\* case tea.WindowSizeMsg
UpdateWindowSize(mm, size) ==
    [ m |-> updateTextareaSizes([mm EXCEPT !.width = size.w, !.height = size.h]),
      cmd |-> NoCmd ]

---------------------------------------------------------------------------
(* The session: tea.NewProgram(tui.New(cfg, tool, stay)).Run()              *)

\* the case of Update's switch that handles key k
Branch(mm, k) ==
    IF mm.showHelp THEN "help-close"
    ELSE CASE k \in {"ctrl+c", "ctrl+d"} -> "force-quit"
           [] k = "esc" -> "cancel"
           [] k = "?" -> "help-open"
           [] k = "ctrl+s" -> "save"
           [] k \in {"/", "ctrl+t"} -> "focus-tool"
           [] k = "tab" -> "tab"
           [] k = "shift+tab" -> "shift+tab"
           [] OTHER -> "field"

NoSave == "none"

\* nothing derived, nothing invoked: the form runs on its own
NoDerivation ==
    [ input |-> << >>, runs |-> 0, fn |-> "none", at |-> 0,
      result |-> << >>, again |-> << >> ]
\* the machine with its disk (the config file, the directories under the
\* working directory, their README.md) before crumb is invoked: a README is
\* [dir, content]
Machine(file, dirs, readmes) ==
    [ invoked |-> FALSE, command |-> "", configFile |-> file, dirs |-> dirs,
      readmes |-> readmes, cfg |-> NilConfig, exit |-> 0, err |-> << >>,
      launched |-> FALSE, tools |-> << >> ]
NoInvocation == Machine(NoFile("absent"), {}, {})
Handled(msg, branch, save) == [msg |-> msg, branch |-> branch, save |-> save]

Init ==
    /\ \E stay \in BOOLEAN :
          m = New(DefaultConfig, DefaultConfig.DefaultTool, stay)
    /\ files = {}
    /\ inflight = {}
    /\ running = TRUE
    /\ nsave = 0
    /\ now = 0
    /\ toastId = 0
    /\ last = Handled("none", "", NoSave)
    /\ drv = NoDerivation
    /\ cli = NoInvocation

\* the key reaches saveAndExit
CallsSave(mm, k) == Branch(mm, k) = "save"

\* content in the form
InputSize(mm) ==
    Len(mm.prompt.value) + Len(mm.output.value) + Len(mm.tags.tags)
        + (mm.toolSelect.selected - 1)

\* the key adds content to the focused field
Adds(mm, k) ==
    /\ Branch(mm, k) = "field"
    /\ \/ k \in Chars \cup {"enter"} /\ mm.focusIndex \in {0, 1, 3}
       \/ k = "down" /\ mm.focusIndex = 2

\* the key stays inside the bounds of the model
WithinBounds(mm, k) ==
    /\ CallsSave(mm, k) => nsave < MaxSaves
    /\ Adds(mm, k) =>
          /\ InputSize(mm) < MaxInput
          /\ mm.focusIndex = 0 => Len(mm.prompt.value) < MaxLen
          /\ mm.focusIndex = 1 => Len(mm.output.value) < MaxLen
          /\ mm.focusIndex = 3 => Len(mm.tags.tags) < MaxTags
          /\ mm.focusIndex = 2 => mm.toolSelect.selected < MaxTool

\* the program runs the command Update returned: tea.Quit ends the session
\* and with it every message still to come; any other message is delivered
\* later
Runs(cmd, pending) ==
    IF cmd \cap Quit # {}
    THEN running' = FALSE /\ inflight' = {}
    ELSE running' = running /\ inflight' = pending \cup cmd

\* the key press k: tea.KeyMsg
Key(k) ==
    /\ running
    /\ WithinBounds(m, k)
    /\ \E timestamp \in now..MaxClock, err \in {""} \cup SaveErrors,
          token \in TagNames :
          LET id == nsave + 1
              r == UpdateKeyMsg(m, k, files, timestamp, err, id, token)
              writes == CallsSave(m, k) /\ r.save # "invalid"
              toasts == CallsSave(m, k) /\ (r.save = "ok" => m.stayOpen)
          IN  /\ ~writes => (timestamp = now /\ err = "")
              /\ m' = r.m
              /\ files' = r.files
              /\ Runs(r.cmd, inflight)
              /\ nsave' = IF CallsSave(m, k) THEN id ELSE nsave
              /\ now' = IF writes THEN timestamp ELSE now
              /\ toastId' = IF toasts THEN id ELSE toastId
              /\ last' = Handled("KeyMsg", Branch(m, k), r.save)
              /\ UNCHANGED outside

KeyMsg == \E k \in Keys : Key(k)

\* the command of a successful save in non-stay mode delivers its message
DeliverSaveSuccess ==
    /\ running
    /\ \E msg \in inflight :
          /\ msg.type = "saveSuccessMsg"
          /\ LET r == UpdateSaveSuccess(m, msg.id)
             IN  /\ m' = r.m
                 /\ Runs(r.cmd, inflight \ {msg})
                 /\ toastId' = msg.id
    /\ last' = Handled("saveSuccessMsg", "", NoSave)
    /\ UNCHANGED <<files, nsave, now>>
    /\ UNCHANGED outside

\* the delayed-quit timer fires
DeliverQuitAfterDelay ==
    /\ running
    /\ \E msg \in inflight :
          /\ msg.type = "quitAfterDelayMsg"
          /\ LET r == UpdateQuitAfterDelay(m)
             IN  /\ m' = r.m
                 /\ Runs(r.cmd, inflight \ {msg})
    /\ last' = Handled("quitAfterDelayMsg", "", NoSave)
    /\ UNCHANGED <<files, nsave, now, toastId>>
    /\ UNCHANGED outside

\* a toast's auto-hide timer fires
DeliverToastHide ==
    /\ running
    /\ \E msg \in inflight :
          /\ msg.type = "ToastHideMsg"
          /\ LET r == UpdateToastHide(m)
             IN  /\ m' = r.m
                 /\ Runs(r.cmd, inflight \ {msg})
    /\ last' = Handled("ToastHideMsg", "", NoSave)
    /\ UNCHANGED <<files, nsave, now, toastId>>
    /\ UNCHANGED outside

\* the terminal is resized: tea.WindowSizeMsg
WindowSizeMsg ==
    /\ running
    /\ \E size \in WindowSizes :
          LET r == UpdateWindowSize(m, size)
          IN  /\ m' = r.m
              /\ Runs(r.cmd, inflight)
    /\ last' = Handled("WindowSizeMsg", "", NoSave)
    /\ UNCHANGED <<files, nsave, now, toastId>>
    /\ UNCHANGED outside

Next ==
    \/ KeyMsg
    \/ DeliverSaveSuccess
    \/ DeliverQuitAfterDelay
    \/ DeliverToastHide
    \/ WindowSizeMsg

Spec == Init /\ [][Next]_vars

\* the runtime delivers what commands schedule: a message in flight is not
\* left waiting forever
FairSpec ==
    /\ Spec
    /\ WF_vars(DeliverSaveSuccess)
    /\ WF_vars(DeliverQuitAfterDelay)
    /\ WF_vars(DeliverToastHide)

---------------------------------------------------------------------------
(* The deriver on its own: a text is put together from runs of one          *)
(* character, then GenerateTitle, Slugify or GenerateFilename is called on  *)
(* it, or it is typed into the prompt of the form and saved with Ctrl+S.    *)

\* most runs a text is made of
MaxRuns == 3
\* lengths of a run, in characters
RunLens == {1, 29, 49, 60}
\* the characters of a run, each as its bytes
DeriveChars == {<<"a">>, <<"A">>, <<"-">>, <<" ">>, <<"!">>, <<"C3", "A9">>}
\* the clock readings GenerateFilename is called with: two on the first day,
\* one on the next
DeriveTimes == 0..DayLen

\* n times the character u
Rep(u, n) == [i \in 1..(n * Len(u)) |-> u[((i - 1) % Len(u)) + 1]]

DeriveInit == Init /\ m.stayOpen

\* what a call of the deriver leaves alone
form == <<m, files, inflight, running, nsave, now, toastId, last>>

TypeRun ==
    /\ drv.fn = "none"
    /\ drv.runs < MaxRuns
    /\ \E u \in DeriveChars, n \in RunLens :
          drv' = [drv EXCEPT !.input = @ \o Rep(u, n), !.runs = @ + 1]
    /\ UNCHANGED <<form, cli>>

CallSlugify ==
    /\ drv.fn = "none"
    /\ drv' = [drv EXCEPT !.fn = "Slugify", !.result = Slugify(drv.input)]
    /\ UNCHANGED <<form, cli>>

\* Slugify called on its own result
CallSlugifyAgain ==
    /\ drv.fn = "Slugify"
    /\ drv' = [drv EXCEPT !.fn = "SlugifyTwice", !.again = Slugify(drv.result)]
    /\ UNCHANGED <<form, cli>>

CallGenerateTitle ==
    /\ drv.fn = "none"
    /\ drv' = [drv EXCEPT !.fn = "GenerateTitle",
                          !.result = GenerateTitle(drv.input)]
    /\ UNCHANGED <<form, cli>>

CallGenerateFilename ==
    /\ drv.fn = "none"
    /\ \E timestamp \in DeriveTimes :
          drv' = [drv EXCEPT !.fn = "GenerateFilename", !.at = timestamp,
                             !.result = GenerateFilename(drv.input, timestamp)]
    /\ UNCHANGED <<form, cli>>

\* the text is the prompt of the form and Ctrl+S is pressed
SaveTyped ==
    /\ drv.fn = "none"
    /\ running /\ nsave = 0
    /\ LET id == nsave + 1
           typed == [m EXCEPT !.prompt.value = drv.input]
           r == UpdateKeyMsg(typed, "ctrl+s", files, now, "", id, "")
       IN  /\ m' = r.m
           /\ files' = r.files
           /\ Runs(r.cmd, inflight)
           /\ nsave' = id
           /\ toastId' = id
           /\ last' = Handled("KeyMsg", Branch(typed, "ctrl+s"), r.save)
    /\ drv' = [drv EXCEPT !.fn = "saveAndExit"]
    /\ UNCHANGED <<now, cli>>

DeriveNext ==
    \/ TypeRun
    \/ CallSlugify
    \/ CallSlugifyAgain
    \/ CallGenerateTitle
    \/ CallGenerateFilename
    \/ SaveTyped

DeriveSpec == DeriveInit /\ [][DeriveNext]_vars

---------------------------------------------------------------------------
(* The command line: main and run of cmd/crumb.  One action per command,    *)
(* each the whole invocation from config.Load to the exit code; the user    *)
(* editing the config file is an action of its own.                         *)

\* what writeDefaultConfig writes
DefaultFile ==
    [ kind |-> "yaml", keys |-> ConfigKeys, DefaultTool |-> "Claude Code",
      OutputDir |-> "crumbs", CustomTools |-> << >>, FavoriteTags |-> << >> ]

\* main: run returned err, os.Exit(1)
Failed(c, command, cfg, err) ==
    [c EXCEPT !.invoked = TRUE, !.command = command, !.cfg = cfg,
              !.exit = 1, !.err = err, !.launched = FALSE, !.tools = << >>]

\* main: run returned nil
Succeeded(c, command, cfg) ==
    [c EXCEPT !.invoked = TRUE, !.command = command, !.cfg = cfg,
              !.exit = 0, !.err = << >>, !.launched = FALSE, !.tools = << >>]

\* run: config.Load failed, no command is dispatched
LoadFailed(c, command, err) ==
    Failed(c, command, NilConfig, <<"failed to load config", err>>)

\* the README.md runInit writes: the heading, the table header with no rows
\* under it, the footer
StarterReadme == [text |-> "starter", rows |-> << >>]

\* the markdown files of directory dir: the entries saved there and its
\* README.md when there is one
README == <<"R", "E", "A", "D", "M", "E", ".", "m", "d">>
ListDir(fs, readmes, dir) ==
    {f \in fs : f.dir = dir}
        \cup {[dir |-> dir, name |-> README, content |-> r.content] :
                 r \in {x \in readmes : x.dir = dir}}

\* a file starts with a well-formed front matter block: an entry does, a
\* README.md (heading first) does not
HasFrontMatter(file) == "title" \in DOMAIN file.content

\* the table row of an entry, from its front matter
Row(file) ==
    [ date |-> file.content.date, author |-> file.content.author,
      tool |-> file.content.tool, tags |-> file.content.tags,
      title |-> file.content.title ]

\* the order of bytes in file names
ByteOrder == <<"-", ".", "0", "1", "2", "3", "4", "5", "6", "7", "8", "9",
               "a", "b", "d", "m">>
Rank(c) == CHOOSE i \in 1..Len(ByteOrder) : ByteOrder[i] = c
\* name x comes before name y in the directory listing
NameBefore(x, y) ==
    \E i \in 1..Len(x) :
        /\ \A j \in 1..(i - 1) : j <= Len(y) /\ x[j] = y[j]
        /\ i <= Len(y)
        /\ Rank(x[i]) < Rank(y[i])

\* the entries newest first, entries of one date in listing order
SortEntries(entries) ==
    LET n == Cardinality(entries)
        before(a, b) ==
            \/ a.content.date > b.content.date
            \/ a.content.date = b.content.date /\ NameBefore(a.name, b.name)
    IN  CHOOSE seq \in [1..n -> entries] :
            \A i, j \in 1..n : i < j => before(seq[i], seq[j])

Generate_indexesReadme(listing) ==
    LET entries == SortEntries({f \in listing : HasFrontMatter(f)})
        others == IF \E f \in listing : ~HasFrontMatter(f)
                  THEN << [ date |-> -1, author |-> "", tool |-> "",
                            tags |-> << >>, title |-> README ] >>
                  ELSE << >>
    IN  [ text |-> "generated",
          rows |-> [i \in 1..Len(entries) |-> Row(entries[i])] \o others ]

\* readme.Generate on the listing of the directory: files without front
\* matter are skipped, the others give one row each
Generate(listing) ==
    LET entries == SortEntries({f \in listing : HasFrontMatter(f)})
    IN  [ text |-> "generated",
          rows |-> [i \in 1..Len(entries) |-> Row(entries[i])] ]

\* os.WriteFile(<dir>/README.md, content)
WriteReadme(readmes, dir, content) ==
    {r \in readmes : r.dir # dir} \cup {[dir |-> dir, content |-> content]}

CliInit ==
    /\ \E stay \in {FALSE} :
          m = New(DefaultConfig, DefaultConfig.DefaultTool, stay)
    /\ files = {}
    /\ inflight = {}
    /\ running = FALSE
    /\ nsave = 0
    /\ now = 0
    /\ toastId = 0
    /\ last = Handled("none", "", NoSave)
    /\ drv = NoDerivation
    /\ cli = NoInvocation

\* the user writes the config file (in the editor crumb config opened, or
\* otherwise)
WriteConfig ==
    /\ \E file \in ConfigFiles :
          /\ file # cli.configFile
          /\ cli' = Machine(file, cli.dirs, cli.readmes)
    /\ UNCHANGED <<form, drv>>

\* crumb [-t tool] [--stay]: runTUI.  The session is cut short to what it
\* leaves behind when the process ends: the user saved the prompt "a" (in a
\* session started with -t Cursor), or left without saving
RunDefault ==
    \E toolFlag \in {"", "Cursor"}, stay \in BOOLEAN, fault \in {"", "tui"},
       saves \in BOOLEAN :
        LET loaded == Load(cli.configFile)
            cfg == loaded.cfg
            selectedTool == IF toolFlag # "" THEN toolFlag ELSE cfg.DefaultTool
            opened == New(cfg, selectedTool, stay)
            typed == [opened EXCEPT !.prompt.value = <<"a">>]
            r == saveAndExit(typed, files, now, "", 1)
            ran == [ IF fault = "tui"
                     THEN Failed(cli, "", cfg, <<"TUI error">>)
                     ELSE Succeeded(cli, "", cfg)
                     EXCEPT !.launched = TRUE,
                            !.tools = IF toolFlag # "" THEN GetAllTools(cfg)
                                      ELSE << >> ]
        IN  IF loaded.err # ""
            THEN /\ toolFlag = "" /\ ~stay /\ fault = "" /\ ~saves
                 /\ cli' = LoadFailed(cli, "", loaded.err)
                 /\ UNCHANGED <<form, drv>>
            ELSE /\ fault = "tui" => ~saves
                 /\ saves => toolFlag = "Cursor"
                 /\ cli' = IF saves
                           THEN [ran EXCEPT !.dirs = @ \cup {cfg.OutputDir}]
                           ELSE ran
                 /\ files' = IF saves THEN r.files ELSE files
                 /\ UNCHANGED <<m, inflight, running, nsave, now, toastId,
                                last, drv>>

RunReadme_createsDir ==
    /\ \E fault \in {"", "getwd", "generate", "write"} :
        LET loaded == Load(cli.configFile)
            cfg == loaded.cfg
            promptsDir == cfg.OutputDir
        IN  IF loaded.err # ""
            THEN fault = "" /\ cli' = LoadFailed(cli, "readme", loaded.err)
            ELSE cli' =
                   CASE fault = "getwd" ->
                          Failed(cli, "readme", cfg,
                                 <<"failed to get current directory">>)
                     [] fault = "generate" ->
                          Failed(cli, "readme", cfg,
                                 <<"failed to generate README">>)
                     [] fault = "write" ->
                          Failed(cli, "readme", cfg, <<"failed to write README">>)
                     [] OTHER ->
                          [Succeeded(cli, "readme", cfg) EXCEPT
                              !.dirs = @ \cup {promptsDir},
                              !.readmes = WriteReadme(@, promptsDir,
                                  Generate(ListDir(files, @, promptsDir)))]
    /\ UNCHANGED <<form, drv>>

\* crumb readme: runReadme
RunReadme ==
    /\ \E fault \in {"", "getwd", "generate", "write"} :
        LET loaded == Load(cli.configFile)
            cfg == loaded.cfg
            promptsDir == cfg.OutputDir
        IN  IF loaded.err # ""
            THEN fault = "" /\ cli' = LoadFailed(cli, "readme", loaded.err)
            ELSE cli' =
                   CASE fault = "getwd" ->
                          Failed(cli, "readme", cfg,
                                 <<"failed to get current directory">>)
                     [] promptsDir \notin cli.dirs ->
                          Failed(cli, "readme", cfg,
                                 <<"prompts directory does not exist",
                                   promptsDir, "run 'crumb init' first">>)
                     [] fault = "generate" ->
                          Failed(cli, "readme", cfg,
                                 <<"failed to generate README">>)
                     [] fault = "write" ->
                          Failed(cli, "readme", cfg, <<"failed to write README">>)
                     [] OTHER ->
                          [Succeeded(cli, "readme", cfg) EXCEPT
                              !.readmes = WriteReadme(@, promptsDir,
                                  Generate(ListDir(files, @, promptsDir)))]
    /\ UNCHANGED <<form, drv>>

\* crumb config: runConfig
RunConfig ==
    /\ \E fault \in {"", "mkdir", "write", "editor"} :
        LET loaded == Load(cli.configFile)
            cfg == loaded.cfg
            absent == cli.configFile.kind = "absent"
        IN  IF loaded.err # ""
            THEN fault = "" /\ cli' = LoadFailed(cli, "config", loaded.err)
            ELSE cli' =
                   CASE fault = "mkdir" ->
                          Failed(cli, "config", cfg,
                                 <<"failed to create config directory">>)
                     [] fault = "write" /\ absent ->
                          Failed(cli, "config", cfg,
                                 <<"failed to write default config">>)
                     [] fault = "editor" ->
                          [Failed(cli, "config", cfg, <<"failed to open editor">>)
                              EXCEPT !.configFile =
                                        IF absent THEN DefaultFile ELSE @]
                     [] OTHER ->
                          [Succeeded(cli, "config", cfg) EXCEPT
                              !.configFile = IF absent THEN DefaultFile ELSE @]
    /\ UNCHANGED <<form, drv>>

RunInit_keepsReadme ==
    /\ \E fault \in {"", "getwd", "mkdir", "write"} :
        LET loaded == Load(cli.configFile)
            cfg == loaded.cfg
            promptsDir == cfg.OutputDir
        IN  IF loaded.err # ""
            THEN fault = "" /\ cli' = LoadFailed(cli, "init", loaded.err)
            ELSE cli' =
                   CASE fault = "getwd" ->
                          Failed(cli, "init", cfg,
                                 <<"failed to get current directory">>)
                     [] fault = "mkdir" ->
                          Failed(cli, "init", cfg, <<"failed to create directory">>)
                     [] fault = "write" ->
                          [Failed(cli, "init", cfg, <<"failed to write README">>)
                              EXCEPT !.dirs = @ \cup {promptsDir}]
                     [] OTHER ->
                          [Succeeded(cli, "init", cfg) EXCEPT
                              !.dirs = @ \cup {promptsDir},
                              !.readmes =
                                  IF \E r \in @ : r.dir = promptsDir THEN @
                                  ELSE WriteReadme(@, promptsDir, StarterReadme)]
    /\ UNCHANGED <<form, drv>>

\* crumb init: runInit
RunInit ==
    /\ \E fault \in {"", "getwd", "mkdir", "write"} :
        LET loaded == Load(cli.configFile)
            cfg == loaded.cfg
            promptsDir == cfg.OutputDir
        IN  IF loaded.err # ""
            THEN fault = "" /\ cli' = LoadFailed(cli, "init", loaded.err)
            ELSE cli' =
                   CASE fault = "getwd" ->
                          Failed(cli, "init", cfg,
                                 <<"failed to get current directory">>)
                     [] fault = "mkdir" ->
                          Failed(cli, "init", cfg, <<"failed to create directory">>)
                     [] fault = "write" ->
                          [Failed(cli, "init", cfg, <<"failed to write README">>)
                              EXCEPT !.dirs = @ \cup {promptsDir}]
                     [] OTHER ->
                          [Succeeded(cli, "init", cfg) EXCEPT
                              !.dirs = @ \cup {promptsDir},
                              !.readmes = WriteReadme(@, promptsDir,
                                                      StarterReadme)]
    /\ UNCHANGED <<form, drv>>

\* crumb <anything else>: a markdown file is rendered, another word is an
\* unknown command
RunOther ==
    /\ \E command \in {"entry.md", "bogus"}, fault \in {"", "read"} :
        LET loaded == Load(cli.configFile)
            cfg == loaded.cfg
        IN  IF loaded.err # ""
            THEN fault = "" /\ cli' = LoadFailed(cli, command, loaded.err)
            ELSE cli' =
                   CASE command = "bogus" ->
                          Failed(cli, command, cfg, <<"unknown command", command>>)
                     [] fault = "read" ->
                          Failed(cli, command, cfg, <<"failed to read file">>)
                     [] OTHER -> Succeeded(cli, command, cfg)
    /\ UNCHANGED <<form, drv>>

CliNext ==
    \/ WriteConfig
    \/ RunDefault
    \/ RunReadme
    \/ RunConfig
    \/ RunInit
    \/ RunOther

CliSpec == CliInit /\ [][CliNext]_vars

---------------------------------------------------------------------------
(* The index: entries are captured on several days in the default          *)
(* directory, some are removed by hand, and init and readme are run in any  *)
(* order.                                                                   *)

\* the clock readings of the captures: two on the first day, one on the next
MaxIndexClock == 2
\* the prompts captured
IndexPrompts == {<<"a">>, <<"b">>}

\* crumb: a session in which the user types a prompt and saves it
CaptureEntry ==
    \E prompt \in IndexPrompts, timestamp \in now..MaxIndexClock :
        LET loaded == Load(cli.configFile)
            cfg == loaded.cfg
            opened == New(cfg, cfg.DefaultTool, FALSE)
            typed == [opened EXCEPT !.prompt.value = prompt]
            r == saveAndExit(typed, files, timestamp, "", 1)
        IN  /\ loaded.err = ""
            /\ cli' = [Succeeded(cli, "", cfg) EXCEPT
                          !.launched = TRUE,
                          !.dirs = @ \cup {cfg.OutputDir}]
            /\ files' = r.files
            /\ now' = timestamp
            /\ UNCHANGED <<m, inflight, running, nsave, toastId, last, drv>>

\* the user deletes an entry file
RemoveEntry ==
    /\ \E f \in files : files' = files \ {f}
    /\ cli' = [Machine(cli.configFile, cli.dirs, cli.readmes)
                 EXCEPT !.command = "rm"]
    /\ UNCHANGED <<m, inflight, running, nsave, now, toastId, last, drv>>

IndexNext ==
    \/ CaptureEntry
    \/ RemoveEntry
    \/ RunInit
    \/ RunReadme

IndexSpec == CliInit /\ [][IndexNext]_vars

---------------------------------------------------------------------------
(* Properties *)

\* what the user entered in the four fields
Contents(mm) ==
    <<mm.prompt.value, mm.output.value, mm.tags.tags, mm.toolSelect.selected>>

\* the messages the step scheduled
Scheduled == inflight' \ inflight

C2_SaveErrorKeepsForm ==
    [][ last'.save = "error" =>
          /\ running'
          /\ \A x \in Scheduled : x.type = "ToastHideMsg"
          /\ \E err \in SaveErrors :
                m' = [m EXCEPT !.showToast = TRUE, !.isError = TRUE,
                               !.toastMsg = <<"Error: ", err>>]
          /\ Contents(m') = Contents(m)
          /\ m'.focusIndex = m.focusIndex ]_vars

\* a save failed in stay-open mode with the form filled and focus off field 0
C2_Witness ==
    /\ last.save = "error"
    /\ m.stayOpen
    /\ m.showToast /\ m.isError /\ m.toastMsg = <<"Error: ", "permission denied">>
    /\ m.prompt.value # << >> /\ m.tags.tags # << >>
    /\ m.focusIndex = 3
    /\ running

\* C3: in stay-open mode a successful save leaves a success toast visible,
\* prompt, output and tag list empty and focusIndex 0, whatever field had
\* focus; it neither ends the session nor schedules a quit, so a stay-open
\* session ends only through Esc, Ctrl+C or Ctrl+D.
C3_StayOpenSaveResets ==
    [][ /\ (last'.save = "ok" /\ m.stayOpen) =>
              /\ m'.showToast /\ ~m'.isError
              /\ m'.prompt.value = << >>
              /\ m'.output.value = << >>
              /\ m'.tags.tags = << >>
              /\ m'.focusIndex = 0
              /\ running'
              /\ \A x \in Scheduled : x.type = "ToastHideMsg"
        /\ (m.stayOpen /\ running /\ ~running') =>
              last'.branch \in {"cancel", "force-quit"} ]_vars

\* a stay-open save succeeded from the tag field, with a tag entered
C3_Witness ==
    /\ last.save = "ok"
    /\ m.stayOpen
    /\ \E f \in files : f.content.tags # << >>
    /\ m.showToast /\ ~m.isError
    /\ m.tags.tags = << >> /\ m.prompt.value = << >>
    /\ m.focusIndex = 0 /\ m.prompt.focus /\ ~m.tags.focus
    /\ running

\* a message of the given type is waiting to be delivered
Pending(type) == \E x \in inflight : x.type = type

\* the runtime delivers the messages and timers that commands schedule
MessagesDelivered ==
    /\ [](Pending("saveSuccessMsg") => <>(last.msg = "saveSuccessMsg"))
    /\ [](Pending("quitAfterDelayMsg") => <>(last.msg = "quitAfterDelayMsg"))

\* a save has just succeeded in a session without stay-open
SavedToExit == last.save = "ok" /\ ~m.stayOpen

\* the saveSuccessMsg handler has just shown its toast
SuccessToastShown ==
    /\ last.msg = "saveSuccessMsg"
    /\ m.showToast /\ ~m.isError /\ m.toastMsg = <<"Saved!">>

\* C4: without stay-open a successful save schedules the success message and
\* keeps the session running; the quit timer is scheduled only by the handler
\* of the success message, which shows the success toast; the quit message
\* ends the session and leaves the form as it is, whatever its state; and if
\* scheduled messages are delivered, every such save is followed by the
\* success toast and the toast by the end of the session.
C4_SaveToastThenQuit ==
    /\ [][ ( (last'.save = "ok" /\ ~m.stayOpen) =>
                /\ running'
                /\ \E x \in Scheduled : x.type = "saveSuccessMsg"
                /\ \A x \in Scheduled : x.type = "saveSuccessMsg" )
           /\ ( (\E x \in Scheduled : x.type = "quitAfterDelayMsg") =>
                /\ last'.msg = "saveSuccessMsg"
                /\ ~m.stayOpen
                /\ m'.showToast /\ ~m'.isError /\ m'.toastMsg = <<"Saved!">> )
           /\ ( (last'.msg = "quitAfterDelayMsg") => (~running' /\ m' = m) )
         ]_vars
    /\ ( MessagesDelivered =>
            /\ (SavedToExit ~> SuccessToastShown)
            /\ (SuccessToastShown ~> (last.msg = "quitAfterDelayMsg" /\ ~running)) )

\* the quit message ended a session whose form showed the help overlay and a
\* toast, with focus on the output field
C4_Witness ==
    /\ last.msg = "quitAfterDelayMsg"
    /\ ~running
    /\ ~m.stayOpen
    /\ m.showHelp /\ m.showToast /\ m.focusIndex = 1
    /\ files # {}

\* C5: the entry files change only in a step that handles Ctrl+S with a prompt
\* that passes validation and whose Save succeeds; every other step (other
\* keys, resize, timers, a rejected or failed Ctrl+S) leaves the files as they
\* are, Esc ends the session writing nothing, and no file exists before the
\* first Ctrl+S.
C5_OnlyValidSaveWrites ==
    [][ /\ ( files' # files =>
                /\ last'.msg = "KeyMsg" /\ last'.branch = "save"
                /\ last'.save = "ok"
                /\ TrimSpace(m.prompt.value) # << >> )
        /\ ( (last'.branch = "cancel") => (files' = files /\ ~running') )
        /\ ( (nsave' = 0) => (files' = {}) )
      ]_vars

\* after a save wrote an entry, a Ctrl+S with an empty prompt was refused and
\* the entry is still the only file
C5_Witness ==
    /\ last.branch = "save" /\ last.save = "invalid"
    /\ nsave = 2
    /\ Cardinality(files) = 1
    /\ \E f \in files : f.content.prompt # << >>

\* C6: a Ctrl+C key event ends the session in the step that handles it, in
\* every state of the form, help overlay or toast visible included, and writes
\* no file.
C6_CtrlCAlwaysQuits ==
    [][ Key("ctrl+c") => (~running' /\ files' = files) ]_vars

\* C7: "?" with the help overlay hidden makes it visible and changes nothing
\* else; with the overlay visible any key event only sets showHelp to FALSE:
\* focus, fields, toast, files, pending messages and the session are as
\* before and no save is attempted.
C7_HelpOverlayPure ==
    [][ /\ ( (last'.branch = "help-open") =>
                /\ ~m.showHelp
                /\ m' = [m EXCEPT !.showHelp = TRUE]
                /\ UNCHANGED <<files, inflight, running, nsave, toastId>> )
        /\ ( (last'.msg = "KeyMsg" /\ m.showHelp) =>
                /\ last'.branch = "help-close" /\ last'.save = NoSave
                /\ m' = [m EXCEPT !.showHelp = FALSE]
                /\ UNCHANGED <<files, inflight, running, nsave, toastId>> )
      ]_vars

\* a key closed the help overlay over a form with a prompt, a visible toast
\* and focus on the tag field, and the session goes on
C7_Witness ==
    /\ last.branch = "help-close"
    /\ ~m.showHelp
    /\ m.prompt.value # << >>
    /\ m.showToast
    /\ m.focusIndex = 3 /\ m.tags.focus
    /\ running

\* C8: with the help overlay hidden Tab takes focusIndex f to (f + 1) mod 4
\* and Shift+Tab to (f - 1 + 4) mod 4; neither changes a field's content,
\* the files or the session; Shift+Tab undoes Tab, Tab undoes Shift+Tab, and
\* four Tabs give back the form they started from.
C8_TabCycles ==
    /\ [][ /\ ( (last'.branch = "tab") =>
                    /\ m'.focusIndex = (m.focusIndex + 1) % 4
                    /\ (m.focusIndex = 3 => m'.focusIndex = 0)
                    /\ Contents(m') = Contents(m)
                    /\ UNCHANGED <<files, inflight, running>> )
            /\ ( (last'.branch = "shift+tab") =>
                    /\ m'.focusIndex = (m.focusIndex - 1 + 4) % 4
                    /\ (m.focusIndex = 0 => m'.focusIndex = 3)
                    /\ Contents(m') = Contents(m)
                    /\ UNCHANGED <<files, inflight, running>> )
          ]_vars
    /\ [] ( /\ focusPrev(focusNext(m)) = m
            /\ focusNext(focusPrev(m)) = m
            /\ focusNext(focusNext(focusNext(focusNext(m)))) = m )

\* Tab wrapped from the tag field, which holds a tag, to the prompt
C8_Witness ==
    /\ last.branch = "tab"
    /\ m.focusIndex = 0 /\ m.prompt.focus /\ ~m.tags.focus
    /\ m.tags.tags # << >>

\* C9: the timer of a toast that a newer toast has replaced does not hide the
\* newer toast when it fires.
C9_StaleTimerIgnored ==
    [][ \A t \in inflight :
          ( /\ last'.msg = "ToastHideMsg"
            /\ t \notin inflight'
            /\ t.id # toastId
            /\ m.showToast ) => m'.showToast ]_vars

\* the auto-hide timer of toast i is waiting
HidePending(i) ==
    \E t \in inflight : t.type = "ToastHideMsg" /\ t.id = i

\* the runtime lets every auto-hide timer fire
TimersFire == \A i \in 1..MaxSaves : [](HidePending(i) => <>(~HidePending(i)))

\* a toast shown with a timer is hidden unless the session ends or a newer
\* toast replaces it
ToastsHidden ==
    \A i \in 1..MaxSaves :
        (toastId = i /\ m.showToast /\ HidePending(i))
            ~> (~m.showToast \/ ~running \/ toastId # i)

\* C10: every toast shown with an auto-hide timer is hidden in the end when
\* timers fire, and the timer of every error toast is strictly longer than
\* the timer of a success toast.
C10_ToastDurations ==
    /\ [] ( \A t \in inflight :
              (t.type = "ToastHideMsg" /\ t.id = toastId /\ m.showToast
                  /\ m.isError) => t.after > ToastSuccessMs )
    /\ ( TimersFire => ToastsHidden )

\* C11: Slugify is idempotent: Slugify(Slugify(x)) = Slugify(x) for every
\* text x, also longer than 50 characters and with multi-byte letters.
C11_SlugifyIdempotent ==
    drv.fn = "SlugifyTwice" => drv.again = drv.result

\* Slugify up to the cap: lowercased, hyphenated, filtered, collapsed, trimmed
UncappedSlug(str) ==
    LET lowered == ToLowerString(str)
        hyph == [i \in 1..Len(lowered) |-> Hyphenate(lowered[i])]
        kept == Encode(SelectSeq(Decode(hyph),
                    LAMBDA r : r \in Letters \cup Digits \cup {"-"}))
    IN  TrimRight(TrimLeft(CollapseRuns(kept, {"-"}, "-"), {"-"}), {"-"})

\* the first n characters of the text
FirstChars(s, n) == Encode(Take(Decode(s), n))

\* the characters of a slug: lowercase letters, digits and the hyphen
SlugChars == Lower \cup {EAcute} \cup Digits \cup {"-"}

\* C12: the result of Slugify has at most 50 characters, all of them
\* lowercase letters, digits or hyphens, no two hyphens in a row and no
\* hyphen at either end; an uncapped slug of more than 50 characters is cut
\* at the last hyphen past position 0 among its first 50 characters, or to
\* those 50 characters when there is none, and a shorter one is the result.
C12_SlugShape ==
    drv.fn = "Slugify" =>
        LET r == drv.result
            runes == Decode(r)
            u == UncappedSlug(drv.input)
            window == Decode(FirstChars(u, 50))
            lastHyphen == LastIndex(window, "-")
        IN  /\ Len(runes) <= 50
            /\ \A i \in 1..Len(runes) : runes[i] \in SlugChars
            /\ \A i \in 1..(Len(runes) - 1) :
                  ~(runes[i] = "-" /\ runes[i + 1] = "-")
            /\ runes # << >> => (runes[1] # "-" /\ runes[Len(runes)] # "-")
            /\ r = IF RuneCount(u) <= 50 THEN u
                   ELSE IF lastHyphen > 0 THEN Encode(Take(window, lastHyphen))
                   ELSE Encode(window)

\* the prompt trimmed, every whitespace run one space
NormalizedPrompt(prompt) == CollapseRuns(TrimSpace(prompt), Whitespace, " ")

\* C13: GenerateTitle returns at most 60 characters, no whitespace at either
\* end and none but single spaces inside; a normalized prompt of at most 60
\* characters is returned as it is, a longer one as its first 60 characters
\* cut back to the last space among them when there is one.
C13_TitleShape ==
    drv.fn = "GenerateTitle" =>
        LET t == drv.result
            p == NormalizedPrompt(drv.input)
            window == Decode(FirstChars(p, 60))
            lastSpace == LastIndex(window, " ")
        IN  /\ RuneCount(t) <= 60
            /\ t # << >> => (t[1] \notin Whitespace /\ t[Len(t)] \notin Whitespace)
            /\ \A i \in 1..Len(t) : t[i] \in Whitespace =>
                  (t[i] = " " /\ (i > 1 => t[i - 1] \notin Whitespace))
            /\ t = IF RuneCount(p) <= 60 THEN p
                   ELSE IF lastSpace > 0 THEN Encode(Take(window, lastSpace))
                   ELSE Encode(window)

\* C14: the filename is the timestamp's date as YYYY-MM-DD, "-", the slug of
\* the title and ".md", and calls with the same title at any time of the same
\* calendar date give the same filename.
C14_FilenameOfTitleAndDate ==
    drv.fn = "GenerateFilename" =>
        LET name == drv.result
            n == Len(name)
            date == SubSeq(name, 1, 10)
            decimal == {"0", "1", "2", "3", "4", "5", "6", "7", "8", "9"}
        IN  /\ n >= 14
            /\ \A i \in 1..10 : IF i \in {5, 8} THEN date[i] = "-"
                                  ELSE date[i] \in decimal
            /\ date = <<"2", "0", "2", "4", "-", "0", "1", "-", "1",
                        IF DateOf(drv.at) = 0 THEN "5" ELSE "6">>
            /\ name[11] = "-"
            /\ SubSeq(name, 12, n - 3) = Slugify(drv.input)
            /\ SubSeq(name, n - 2, n) = <<".", "m", "d">>
            /\ \A t \in DeriveTimes :
                  DateOf(t) = DateOf(drv.at) =>
                      GenerateFilename(drv.input, t) = name

\* the filename of "A a", derived at the second reading of the first day
C14_Witness ==
    /\ drv.fn = "GenerateFilename"
    /\ drv.input = <<"A", " ", "a">>
    /\ drv.at = 1
    /\ drv.result = <<"2", "0", "2", "4", "-", "0", "1", "-", "1", "5", "-",
                      "a", "-", "a", ".", "m", "d">>

\* C15: a Ctrl+S whose prompt is not empty after trimming never writes a file
\* with an empty slug, named just <YYYY-MM-DD>-.md, whatever the prompt is
\* made of.
C15_NoEmptySlugWritten ==
    (drv.fn = "saveAndExit" /\ TrimSpace(drv.input) # << >>) =>
        \A f \in files :
            f.name # FormatDate(now) \o <<"-", ".", "m", "d">>

\* C16: an entry file, once written, is never changed: every later step of the
\* tool leaves it in the directory with the content it was written with.
C16_EntriesNeverChange ==
    [][ \A f \in files : f \in files' ]_vars

\* C17: Load gives the built-in defaults ("Claude Code", "crumbs", two empty
\* non-nil lists) when there is no config file; from a YAML file it keeps
\* every field the file sets and defaults each missing or empty field on its
\* own; after every successful Load DefaultTool and OutputDir are not empty
\* and neither list is nil.
C17_LoadDefaults ==
    [][ cli'.invoked =>
          LET file == cli.configFile
              cfg == cli'.cfg
              set(key, value) == key \in file.keys /\ value # ""
          IN  /\ file.kind = "absent" =>
                    cfg = [ DefaultTool |-> "Claude Code", OutputDir |-> "crumbs",
                            CustomTools |-> << >>, FavoriteTags |-> << >>,
                            nils |-> {} ]
              /\ file.kind = "yaml" =>
                    /\ cfg.DefaultTool =
                          IF set("default_tool", file.DefaultTool)
                          THEN file.DefaultTool ELSE "Claude Code"
                    /\ cfg.OutputDir =
                          IF set("output_dir", file.OutputDir)
                          THEN file.OutputDir ELSE "crumbs"
                    /\ cfg.CustomTools = file.CustomTools
                    /\ cfg.FavoriteTags = file.FavoriteTags
              /\ file.kind \in {"absent", "yaml"} <=> cfg # NilConfig
              /\ cfg # NilConfig =>
                    /\ cfg.DefaultTool # "" /\ cfg.OutputDir # ""
                    /\ cfg.nils = {} ]_vars

\* a file that sets only output_dir and favorite_tags was loaded
C17_Witness ==
    /\ cli.invoked
    /\ cli.configFile.kind = "yaml"
    /\ cli.configFile.keys = {"output_dir", "favorite_tags"}
    /\ cli.cfg # NilConfig
    /\ cli.cfg.OutputDir = "notes" /\ cli.cfg.FavoriteTags = <<"go">>
    /\ cli.cfg.DefaultTool = "Claude Code" /\ cli.cfg.CustomTools = << >>
    /\ cli.cfg.nils = {}

\* the ten built-in tools in their order
TenTools ==
    << "Claude Code", "Cursor", "Kiro", "ChatGPT", "Copilot",
       "Warp AI", "Windsurf", "Aider", "Gemini", "Perplexity" >>

\* C18: GetAllTools gives the ten built-in tools in their order, "Claude
\* Code" first, then the config's custom tools in their order, 10 +
\* len(CustomTools) in all, and just the ten for a nil config; the config is
\* after the call what Load returned.
C18_AllTools ==
    /\ Len(TenTools) = 10
    /\ GetAllTools(NilConfig) = TenTools
    /\ cli.tools # << >> =>
          /\ cli.tools = GetAllTools(cli.cfg)
          /\ Len(cli.tools) = 10 + Len(cli.cfg.CustomTools)
          /\ cli.tools[1] = "Claude Code"
          /\ SubSeq(cli.tools, 1, 10) = TenTools
          /\ SubSeq(cli.tools, 11, Len(cli.tools)) = cli.cfg.CustomTools
          /\ cli.cfg = Load(cli.configFile).cfg

\* the tools of a config with one custom tool were listed
C18_Witness ==
    /\ cli.invoked /\ cli.launched
    /\ cli.cfg # NilConfig
    /\ cli.cfg.CustomTools = <<"Mine">>
    /\ Len(cli.tools) = 11
    /\ cli.tools[11] = "Mine"

\* C19: with a config file that is there but cannot be read or parsed every
\* command exits 1 on the failed Load: the form is not launched, no entry, no
\* README and no directory is written, and the config file is as it was.
C19_ConfigErrorAborts ==
    [][ (cli'.invoked /\ cli.configFile.kind \in {"unreadable", "unparsable"}) =>
          /\ cli'.exit = 1
          /\ cli'.err[1] = "failed to load config"
          /\ ~cli'.launched
          /\ cli'.dirs = cli.dirs
          /\ cli'.readmes = cli.readmes
          /\ cli'.configFile = cli.configFile
          /\ files' = files ]_vars

\* crumb init was run on a config file that does not parse
C19_Witness ==
    /\ cli.invoked /\ cli.command = "init"
    /\ cli.configFile.kind = "unparsable"
    /\ cli.exit = 1
    /\ cli.dirs = {} /\ cli.readmes = {} /\ files = {}

\* C20: crumb readme with the output directory missing exits 1, creating no
\* directory and no README, and (when the working directory can be read) says
\* to run crumb init first; the failure does not last: init without a fault
\* makes the directory, and with the directory there readme fails only on an
\* I/O fault and otherwise writes the index and exits 0.
C20_ReadmeNeedsInit ==
    [][ (cli'.invoked /\ cli'.cfg # NilConfig) =>
          LET dir == cli'.cfg.OutputDir
          IN  /\ (cli'.command = "readme" /\ dir \notin cli.dirs) =>
                    /\ cli'.exit = 1
                    /\ cli'.err # <<"failed to get current directory">> =>
                          cli'.err = <<"prompts directory does not exist", dir,
                                       "run 'crumb init' first">>
                    /\ cli'.dirs = cli.dirs
                    /\ cli'.readmes = cli.readmes
              /\ (cli'.command = "readme" /\ dir \in cli.dirs) =>
                    \/ /\ cli'.exit = 0
                       /\ \E r \in cli'.readmes :
                             r.dir = dir /\ r.content.text = "generated"
                    \/ /\ cli'.exit = 1
                       /\ cli'.err \in {<<"failed to get current directory">>,
                                        <<"failed to generate README">>,
                                        <<"failed to write README">>}
              /\ (cli'.command = "init" /\ cli'.exit = 0) =>
                    /\ dir \in cli'.dirs
                    /\ [dir |-> dir, content |-> StarterReadme] \in cli'.readmes
        ]_vars

\* crumb readme failed for the missing directory "crumbs"
C20_Witness ==
    /\ cli.invoked /\ cli.command = "readme"
    /\ cli.exit = 1
    /\ cli.err = <<"prompts directory does not exist", "crumbs",
                   "run 'crumb init' first">>
    /\ cli.dirs = {} /\ cli.readmes = {}

\* the fields in the focused state
Focused(mm) ==
    {i \in 0..3 : CASE i = 0 -> mm.prompt.focus
                     [] i = 1 -> mm.output.focus
                     [] i = 2 -> mm.toolSelect.focus
                     [] OTHER -> mm.tags.focus}

\* the toast: visible or not, its text, its severity
Toast(mm) == <<mm.showToast, mm.toastMsg, mm.isError>>

\* C22: with the help overlay hidden "/" or Ctrl+T sets focusIndex to 2 from
\* every focus position, 2 itself included, leaves the tool selector the only
\* focused field and changes no field's content (nor the overlay, the toast,
\* the files or the session).
C22_SlashFocusesTool ==
    [][ (last'.msg = "KeyMsg" /\ last'.branch = "focus-tool") =>
          /\ ~m.showHelp
          /\ m'.focusIndex = 2
          /\ Focused(m') = {2}
          /\ Contents(m') = Contents(m)
          /\ m' = [m EXCEPT !.focusIndex = 2,
                            !.prompt.focus = FALSE, !.output.focus = FALSE,
                            !.tags.focus = FALSE, !.toolSelect.focus = TRUE]
          /\ UNCHANGED <<files, inflight, running, nsave>> ]_vars

\* the shortcut took focus to the tool selector over a typed prompt
C22_Witness ==
    /\ last.branch = "focus-tool"
    /\ m.focusIndex = 2 /\ m.toolSelect.focus
    /\ ~m.prompt.focus /\ ~m.output.focus /\ ~m.tags.focus
    /\ m.prompt.value # << >>
    /\ running

\* C23: with the help overlay hidden a key that is no global binding goes to
\* the field at focusIndex and to no other, toast visible or not: the other
\* three fields, focusIndex, showHelp and the toast are as before, and so are
\* the files, the pending messages and the session.
C23_KeyRoutedToFocusedField ==
    [][ (last'.msg = "KeyMsg" /\ last'.branch = "field") =>
          /\ ~m.showHelp /\ ~m'.showHelp
          /\ m'.focusIndex = m.focusIndex
          /\ Toast(m') = Toast(m)
          /\ (m.focusIndex # 0 => m'.prompt = m.prompt)
          /\ (m.focusIndex # 1 => m'.output = m.output)
          /\ (m.focusIndex # 2 => m'.toolSelect = m.toolSelect)
          /\ (m.focusIndex # 3 => m'.tags = m.tags)
          /\ \E k \in FieldKeys, token \in TagNames :
                m' = updateFocused(m, k, token)
          /\ UNCHANGED <<files, inflight, running, nsave>> ]_vars

\* under the toast of a refused save the prompt was typed
C23_Witness ==
    /\ last.msg = "KeyMsg" /\ last.branch = "field"
    /\ m.showToast /\ m.toastMsg = <<"Prompt is required">>
    /\ m.focusIndex = 0
    /\ m.prompt.value = <<"a">>
    /\ files = {} /\ running

\* the form without the terminal size and the display sizes of the two text
\* fields
Unsized(mm) ==
    [mm EXCEPT !.width = 0, !.height = 0,
               !.prompt.height = 0, !.prompt.width = 0,
               !.output.height = 0, !.output.width = 0]

\* C24: a resize changes only the stored width and height and the display
\* sizes of prompt and output: their text, the tags, the tool selection,
\* focusIndex, showHelp and the toast are unchanged (and so are the files, the
\* pending messages and the session); for every terminal height the prompt
\* gets 60%, rounded down, of max(height - 26, 10) lines and the output the
\* rest, the prompt at least 4 lines and the output at least 3.
C24_ResizeOnlySizes ==
    /\ [][ last'.msg = "WindowSizeMsg" =>
             /\ \E size \in WindowSizes :
                   m'.width = size.w /\ m'.height = size.h
             /\ Unsized(m') = Unsized(m)
             /\ Contents(m') = Contents(m)
             /\ m'.focusIndex = m.focusIndex
             /\ m'.showHelp = m.showHelp
             /\ Toast(m') = Toast(m)
             /\ UNCHANGED <<files, inflight, running, nsave>> ]_vars
    /\ [] ( \A h \in 0..MaxHeight :
              LET r == UpdateWindowSize(m, [w |-> m.width, h |-> h]).m
                  available == IF h - 26 > 10 THEN h - 26 ELSE 10
              IN  /\ r.height = h
                  /\ r.prompt.height = (available * 60) \div 100
                  /\ r.output.height = available - r.prompt.height
                  /\ r.prompt.height >= 4
                  /\ r.output.height >= 3
                  /\ Unsized(r) = Unsized(m) )

\* the terminal was resized to 120 x 50 over a typed prompt and a toast
C24_Witness ==
    /\ last.msg = "WindowSizeMsg"
    /\ m.width = 120 /\ m.height = 50
    /\ m.prompt.height = 14 /\ m.output.height = 10
    /\ m.prompt.width = 112 /\ m.output.width = 112
    /\ m.prompt.value # << >>
    /\ m.showToast
    /\ m.focusIndex = 1

\* the tool the dropdown shows as selected
SelectedTool(mm) == GetAllTools(mm.config)[mm.toolSelect.selected]

\* C25: the reset after a successful save in stay-open mode leaves the tool
\* selector's selection alone: the tool selected before the save is selected
\* after it; every save records the tool selected when Ctrl+S was pressed,
\* and the selection changes only by a key the user sends to the focused
\* tool selector, so the next save records the same tool unless the user
\* changed it.
C25_ToolSurvivesReset ==
    [][ /\ ( (last'.save = "ok" /\ m.stayOpen) =>
                /\ m'.prompt.value = << >> /\ m'.tags.tags = << >>
                /\ m'.toolSelect.selected = m.toolSelect.selected
                /\ SelectedTool(m') = SelectedTool(m) )
        /\ ( last'.save = "ok" =>
                \E f \in files' :
                   /\ f.name = GenerateFilename(GenerateTitle(m.prompt.value), now')
                   /\ f.content.prompt = m.prompt.value
                   /\ f.content.tool = SelectedTool(m) )
        /\ ( m'.toolSelect.selected # m.toolSelect.selected =>
                /\ last'.msg = "KeyMsg" /\ last'.branch = "field"
                /\ m.focusIndex = 2 )
      ]_vars

\* a stay-open save recorded "Cursor" and the cleared form still selects it
C25_Witness ==
    /\ last.save = "ok" /\ m.stayOpen
    /\ m.prompt.value = << >> /\ m.focusIndex = 0
    /\ m.toolSelect.selected = 2
    /\ \E f \in files : f.content.tool = "Cursor"
    /\ running

\* C26: in every reachable state of the form focusIndex is 0, 1, 2 or 3 and
\* exactly one field is focused, the one at focusIndex; the form starts with
\* focusIndex 0, the prompt focused and no overlay, and the invariant
\* survives Tab, Shift+Tab, "/", Ctrl+T, the help overlay, saves (the
\* stay-open reset with its fresh tag input included), resizes and timers.
C26_OneFieldFocused ==
    /\ m.focusIndex \in {0, 1, 2, 3}
    /\ Focused(m) = {m.focusIndex}
    /\ last.msg = "none" =>
          /\ m.focusIndex = 0 /\ m.prompt.focus
          /\ ~m.showHelp /\ ~m.showToast

\* after a stay-open save replaced the tag input focus went to the new one
C26_Witness ==
    /\ m.stayOpen /\ files # {}
    /\ last.branch = "shift+tab"
    /\ m.focusIndex = 3 /\ m.tags.focus /\ m.tags.tags = << >>
    /\ ~m.prompt.focus /\ ~m.output.focus /\ ~m.toolSelect.focus

\* C27: the global bindings are taken before the key is routed to a field,
\* whichever field has focus: "/", "?", Tab, Shift+Tab, Esc, Ctrl+S, Ctrl+T,
\* Ctrl+C and Ctrl+D never reach the focused field.  None of them changes a
\* field's content, except that Ctrl+S may empty the fields after a save, and
\* the text of prompt and output never holds a typed "/" or "?".
C27_GlobalKeysIntercepted ==
    /\ [][ \A k \in GlobalKeys :
              \/ /\ last'.branch # "field"
                 /\ m'.toolSelect.selected = m.toolSelect.selected
                 /\ IF k = "ctrl+s"
                    THEN /\ m'.prompt.value \in {m.prompt.value, << >>}
                         /\ m'.output.value \in {m.output.value, << >>}
                         /\ m'.tags.tags \in {m.tags.tags, << >>}
                    ELSE Contents(m') = Contents(m)
              \/ ~Key(k) ]_vars
    /\ [] ( /\ \A i \in 1..Len(m.prompt.value) : m.prompt.value[i] \notin {"/", "?"}
            /\ \A i \in 1..Len(m.output.value) : m.output.value[i] \notin {"/", "?"} )

\* "?" was pressed with the output field focused and filled: the overlay is
\* up and the text is as typed
C27_Witness ==
    /\ last.branch = "help-open" /\ m.showHelp
    /\ m.focusIndex = 1 /\ m.output.focus
    /\ m.output.value = <<"a">>
    /\ running

\* the delayed-quit timers that are running
QuitTimers == {x \in inflight : x.type = "quitAfterDelayMsg"}

\* C28: without stay-open a session writes a file at most once: after a
\* successful save no further Ctrl+S writes a file before the session ends,
\* and at most one delayed-quit timer is ever scheduled.
C28_OneWritePerSession ==
    /\ [][ (~m.stayOpen /\ last'.save = "ok") => files = {} ]_vars
    /\ [] (Cardinality(QuitTimers) <= 1)

\* the content of README.md in the output directory, NoReadme without one
NoReadme == [text |-> "none", rows |-> << >>]
ReadmeOf(c, dir) ==
    IF \E r \in c.readmes : r.dir = dir
    THEN (CHOOSE r \in c.readmes : r.dir = dir).content
    ELSE NoReadme

\* the last command was a readme that wrote the index
ReadmeDone(c) == c.invoked /\ c.command = "readme" /\ c.exit = 0

\* C21: readme run twice in a row, with no entry added, changed or removed
\* in between, writes the same README.md twice, although the second run
\* finds the first run's README.md among the markdown files it scans: right
\* after a readme the index is what Generate gives on the directory as it is
\* now, README.md included, and a second readme leaves the disk as it was.
C21_ReadmeIdempotent ==
    /\ [] ( ReadmeDone(cli) =>
              LET dir == cli.cfg.OutputDir
                  listing == ListDir(files, cli.readmes, dir)
              IN  /\ \E f \in listing : f.name = README
                  /\ ReadmeOf(cli, dir) = Generate(listing)
                  /\ Len(ReadmeOf(cli, dir).rows)
                        = Cardinality({f \in files : f.dir = dir}) )
    /\ [][ (ReadmeDone(cli) /\ ReadmeDone(cli')) =>
              (cli'.readmes = cli.readmes /\ files' = files) ]_vars

\* readme indexed two entries of different days, the newer one first
C21_Witness ==
    /\ ReadmeDone(cli)
    /\ Cardinality(files) = 2
    /\ Len(ReadmeOf(cli, "crumbs").rows) = 2
    /\ ReadmeOf(cli, "crumbs").rows[1].date = 2
    /\ ReadmeOf(cli, "crumbs").rows[2].date = 0

\* C29: an init that succeeds leaves the starter index, a table without
\* rows, as README.md of the output directory, whether or not the directory,
\* entries and a generated index were there before, and leaves every entry
\* file as it was; README.md then lists no entry until a readme succeeds:
\* only a successful init or readme changes it.
C29_InitResetsIndex ==
    [][ /\ ( (cli'.invoked /\ cli'.command = "init" /\ cli'.exit = 0) =>
                /\ ReadmeOf(cli', cli'.cfg.OutputDir) = StarterReadme
                /\ ReadmeOf(cli', cli'.cfg.OutputDir).rows = << >>
                /\ cli'.cfg.OutputDir \in cli'.dirs
                /\ files' = files )
        /\ ( cli'.readmes # cli.readmes =>
                /\ cli'.invoked /\ cli'.exit = 0
                /\ cli'.command \in {"init", "readme"} )
        /\ ( (ReadmeOf(cli, "crumbs").text = "starter"
                  /\ ReadmeOf(cli', "crumbs").text = "generated") =>
                cli'.command = "readme" )
      ]_vars

\* init has run over two entries: they are there, the index lists none
C29_Witness ==
    /\ cli.invoked /\ cli.command = "init" /\ cli.exit = 0
    /\ Cardinality({f \in files : f.dir = "crumbs"}) = 2
    /\ ReadmeOf(cli, "crumbs") = StarterReadme

====
